---- MODULE Spec2Model ----
(***************************************************************************)
(* Model of picturer (src/main.rs): encode() frames a byte payload as      *)
(* [flag][u64 LE length][stored bytes], pads it to width*height*4 and      *)
(* hands it to an RGBA image of (width/2) x (height*2) pixels; decode()    *)
(* parses such a channel buffer back into the payload.                     *)
(*                                                                         *)
(* Machine integers (u32, u64, usize) do not fit TLC's integers, so they   *)
(* are kept as four 16-bit limbs, least significant first.  usize is 64    *)
(* bits wide.  The zlib codec is an external black box: the compressor     *)
(* either fails or returns some stream, and the decompressor inverts       *)
(* exactly the streams the compressor is known to have produced.           *)
(***************************************************************************)
EXTENDS Integers, Sequences, FiniteSets, TLC

VARIABLES build, pc, zlib, file, enc, dec, in1, out1, in2, out2, lenIn, lenOut

vars == <<build, pc, zlib, file, enc, dec, in1, out1, in2, out2, lenIn, lenOut>>

(***************************************************************************)
(* Bounds of the model.                                                    *)
(***************************************************************************)
MaxLen == 41        \* longest payload handed to encode
MaxZ == 41          \* longest stream the compressor returns
MaxData == 3        \* longest byte run after a hand-made header
MaxSmallLen == 120  \* stored lengths 0..MaxSmallLen at the length level
MaxDelta == 24      \* stored lengths tried above each large anchor

(***************************************************************************)
(* Machine integers as limbs.                                              *)
(***************************************************************************)
B == 2 ^ 16

\* a natural below 2^31 as a 64-bit value
N(n) == <<n % B, n \div B, 0, 0>>

\* propagate carries of limbs that grew past 16 bits
Norm(l) ==
  LET l1 == l[1]
      l2 == l[2] + (l1 \div B)
      l3 == l[3] + (l2 \div B)
      l4 == l[4] + (l3 \div B)
  IN <<l1 % B, l2 % B, l3 % B, l4 % B>>

AddSmall(x, k) == Norm(<<x[1] + k, x[2], x[3], x[4]>>)

Leq(a, b) ==
  \/ a[4] < b[4]
  \/ a[4] = b[4] /\ a[3] < b[3]
  \/ a[4] = b[4] /\ a[3] = b[3] /\ a[2] < b[2]
  \/ a[4] = b[4] /\ a[3] = b[3] /\ a[2] = b[2] /\ a[1] <= b[1]

\* the value as a TLC integer, for values below 2^31
Small(x) == x[1] + (B * x[2])

\* u32::try_from(usize)
FitsU32(x) == x[3] = 0 /\ x[4] = 0

\* truncation of a product to 32 bits (release build arithmetic)
WrapU32(x) == <<x[1], x[2], 0, 0>>

\* p * k for p < 2^31 and a small factor k
Times(p, k) == Norm(<<(p % B) * k, (p \div B) * k, 0, 0>>)

\* w * w for 0 <= w <= 2^16
Square(w) ==
  LET a == w \div 256
      b == w % 256
      mid == (2 * a * b * 256) + (b * b)
  IN Norm(<<mid % B, (a * a) + (mid \div B), 0, 0>>)

RECURSIVE SqrtSearch(_, _, _)
SqrtSearch(x, lo, hi) ==
  IF lo >= hi THEN lo
  ELSE LET mid == (lo + hi) \div 2
       IN IF Leq(x, Square(mid)) THEN SqrtSearch(x, lo, mid)
          ELSE SqrtSearch(x, mid + 1, hi)

\* f64::from(x).sqrt().ceil() as u32, exact for every u32 x: the least w
\* with w * w >= x
SqrtCeil(x) == SqrtSearch(x, 0, B)

(***************************************************************************)
(* Bytes and the little-endian length field.                               *)
(***************************************************************************)
ToLeBytes(x) ==
  <<x[1] % 256, x[1] \div 256, x[2] % 256, x[2] \div 256,
    x[3] % 256, x[3] \div 256, x[4] % 256, x[4] \div 256>>

FromLeBytes(c) ==
  <<c[1] + (256 * c[2]), c[3] + (256 * c[4]), c[5] + (256 * c[6]), c[7] + (256 * c[8])>>

Zeros(n) == [i \in 1..n |-> 0]

\* Vec::resize(n, 0): truncates a longer vector, zero-fills a shorter one
Resize(buf, n) ==
  IF n <= Len(buf) THEN SubSeq(buf, 1, n) ELSE buf \o Zeros(n - Len(buf))

(***************************************************************************)
(* The zlib black box.                                                     *)
(***************************************************************************)
NoStream == [known |-> FALSE]

Stream(plain, packed) == [known |-> TRUE, plain |-> plain, packed |-> packed]

CompressFailed == [ok |-> FALSE]

Compressed(z) == [ok |-> TRUE, out |-> z]

Decompress(buf, z) ==
  IF z.known /\ buf = z.packed
  THEN [ok |-> TRUE, out |-> z.plain]
  ELSE [ok |-> FALSE]

(***************************************************************************)
(* encode: dimension arithmetic (main.rs 112-115).                         *)
(***************************************************************************)
Width(w) == w + (4 - (w % 4))

Height(width) == (width \div 4) - 1

ImageWidth(width) == width \div 2

\* a plausible slip: the height is not doubled when the width is halved
ImageHeightKept(height) == height

ImageHeight(height) == height * 2

\* width * height * 4 in u32: the exact product and whether it overflows
TargetSize(width, height) ==
  LET exact == Times(width * height, 4)
  IN [exact |-> exact, overflow |-> ~FitsU32(exact), wrapped |-> WrapU32(exact)]

\* RgbaImage::from_vec(iw, ih, buf) is Some iff iw * ih * 4 <= buf.len()
FromVecFits(iw, ih, len) == Leq(Times(iw * ih, 4), len)

\* Lines 112-117 on the length of the frame buffer alone: the conversion to
\* u32, the dimensions, the resize target and the check of from_vec.  An
\* overflowing product panics in a debug build and wraps in a release build.
Shape(L, bld) ==
  LET none == [status |-> "err", msg |-> "TryFromIntError", L |-> L,
               w |-> 0, width |-> 0, height |-> 0, exact |-> N(0),
               overflow |-> FALSE, resized |-> FALSE, size |-> N(0),
               iw |-> 0, ih |-> 0]
  IN IF ~FitsU32(L) THEN none
     ELSE
       LET w == SqrtCeil(L)
           width == Width(w)
           height == Height(width)
           t == TargetSize(width, height)
           dims == [none EXCEPT !.w = w, !.width = width, !.height = height,
                                !.exact = t.exact, !.overflow = t.overflow]
       IN IF t.overflow /\ bld = "debug"
          THEN [dims EXCEPT !.status = "panic",
                            !.msg = "attempt to multiply with overflow"]
          ELSE
            LET iw == ImageWidth(width)
                ih == ImageHeight(height)
                fits == FromVecFits(iw, ih, t.wrapped)
            IN [dims EXCEPT !.status = IF fits THEN "ok" ELSE "err",
                            !.msg = IF fits THEN "" ELSE "buffer too small",
                            !.resized = TRUE, !.size = t.wrapped,
                            !.iw = iw, !.ih = ih]

\* encode on the length n of the stored bytes: buf.len() = 1 + 8 + n
EncodeLen(n, bld) == Shape(AddSmall(n, 9), bld)

(***************************************************************************)
(* encode on bytes (main.rs 91-119).                                       *)
(***************************************************************************)
NoImage == [width |-> 0, height |-> 0, data |-> <<>>]

Frame(flag, stored) == <<flag>> \o ToLeBytes(N(Len(stored))) \o stored

Encode(bytes, cres, bld) ==
  LET stored == IF cres.ok THEN cres.out ELSE bytes
      flag == IF cres.ok THEN 1 ELSE 0
      frame == Frame(flag, stored)
      sh == Shape(N(Len(frame)), bld)
  IN [status |-> sh.status, msg |-> sh.msg, flag |-> flag, stored |-> stored,
      frame |-> frame, shape |-> sh,
      img |-> IF sh.status = "ok"
              THEN [width |-> sh.iw, height |-> sh.ih,
                    data |-> Resize(frame, Small(sh.size))]
              ELSE NoImage]

\* main.rs 58-61: the pixels in row order, the four channels of each in order
Flatten(img) ==
  [k \in 1..(img.width * img.height * 4) |->
     LET p == (k - 1) \div 4
         c == (k - 1) % 4
         x == p % img.width
         y == p \div img.width
     IN img.data[((y * img.width + x) * 4) + c + 1]]

(***************************************************************************)
(* decode (main.rs 70-89).                                                 *)
(***************************************************************************)
Fail(kind, msg) == [status |-> kind, msg |-> msg, bytes |-> <<>>]

Done(bytes) == [status |-> "ok", msg |-> "", bytes |-> bytes]

\* a plausible slip: a short header is read as if zero bytes followed it
SplitFirstChunkZeroFilled(s) ==
  LET padded == s \o Zeros(8)
  IN [some |-> TRUE, chunk |-> SubSeq(padded, 1, 8),
      rest |-> SubSeq(padded, 9, Len(s))]

\* <[u8]>::split_first_chunk::<8>()
SplitFirstChunk(s) ==
  IF Len(s) < 8 THEN [some |-> FALSE, chunk |-> <<>>, rest |-> <<>>]
  ELSE [some |-> TRUE, chunk |-> SubSeq(s, 1, 8), rest |-> SubSeq(s, 9, Len(s))]

\* a plausible slip: everything after the header is taken as the payload
SliceWhole(data, length) ==
  IF ~Leq(length, N(Len(data))) THEN [ok |-> FALSE, out |-> <<>>]
  ELSE [ok |-> TRUE, out |-> data]

\* &data[..length]: panics when length > data.len()
SliceTo(data, length) ==
  IF ~Leq(length, N(Len(data))) THEN [ok |-> FALSE, out |-> <<>>]
  ELSE [ok |-> TRUE, out |-> SubSeq(data, 1, Small(length))]

Decode(bytes, z) ==
  IF Len(bytes) = 0 THEN Fail("err", "input file is empty")
  ELSE
    LET is_compressed == bytes[1] # 0
        split == SplitFirstChunk(Tail(bytes))
    IN IF ~split.some THEN Fail("err", "input file is invalid")
       ELSE
         LET length == FromLeBytes(split.chunk)
             buf == SliceTo(split.rest, length)
         IN IF ~buf.ok
            THEN Fail("panic", "range end index out of range for slice")
            ELSE IF is_compressed
                 THEN LET r == Decompress(buf.out, z)
                      IN IF r.ok THEN Done(r.out)
                         ELSE Fail("err", "corrupt deflate stream")
                 ELSE Done(buf.out)

(***************************************************************************)
(* Inputs.                                                                 *)
(***************************************************************************)
Builds == {"debug", "release"}

Pattern(n, s) == [i \in 1..n |-> (s + (37 * i)) % 256]

Payloads == {Pattern(n, s) : n \in 0..MaxLen, s \in {0, 219}}

CompressOutcomes == {CompressFailed} \cup {Compressed(Pattern(n, 120)) : n \in 0..MaxZ}

RECURSIVE ByteRuns(_)
ByteRuns(n) ==
  IF n = 0 THEN {<<>>}
  ELSE LET shorter == ByteRuns(n - 1)
       IN shorter \cup {Append(r, b) : r \in {q \in shorter : Len(q) = n - 1}, b \in {0, 9}}

\* declared lengths of hand-made headers: small ones and ones past 2^16,
\* 2^32 and 2^48
DeclaredLengths ==
  {N(k) : k \in 0..(MaxData + 1)} \cup {<<1, 1, 0, 0>>, <<0, 0, 1, 0>>, <<2, 0, 0, 1>>}

Prefixes(q) == {SubSeq(q, 1, k) : k \in 0..Len(q)}

\* channel buffers handed to decode directly: every cut of a header, and
\* whole headers followed by a run of bytes
DecodeInputs ==
  LET headers == {<<f>> \o ToLeBytes(l) : f \in {0, 1, 7}, l \in DeclaredLengths}
  IN (UNION {Prefixes(h) : h \in headers})
       \cup {h \o r : h \in headers, r \in ByteRuns(MaxData)}

KnownStreams == {NoStream, Stream(<<4, 2>>, <<9>>)}

\* anchors just below 65535^2 - 9, 2^32 - 9 and 2^48
Anchors == {<<65520, 65533, 0, 0>>, <<65520, 65535, 0, 0>>, <<65520, 65535, 65535, 0>>}

StoredLengths ==
  {N(k) : k \in 0..MaxSmallLen} \cup {AddSmall(a, j) : a \in Anchors, j \in 0..MaxDelta}

(***************************************************************************)
(* The state machine: one invocation of the tool per step.                 *)
(***************************************************************************)
NoShape ==
  [status |-> "none", msg |-> "", L |-> N(0), w |-> 0, width |-> 0,
   height |-> 0, exact |-> N(0), overflow |-> FALSE, resized |-> FALSE,
   size |-> N(0), iw |-> 0, ih |-> 0]

NoEncode ==
  [status |-> "none", msg |-> "", flag |-> 0, stored |-> <<>>, frame |-> <<>>,
   shape |-> NoShape, img |-> NoImage]

NoDecode == Fail("none", "")

Init ==
  /\ build \in Builds
  /\ pc = "idle"
  /\ zlib = NoStream
  /\ file = <<>>
  /\ enc = NoEncode
  /\ dec = NoDecode
  /\ in1 = <<>>
  /\ out1 = NoDecode
  /\ in2 = <<>>
  /\ out2 = NoDecode
  /\ lenIn = N(0)
  /\ lenOut = NoShape

\* tool -e: encode the bytes of the input file (main.rs 52-56)
EncodeFile ==
  /\ pc = "idle"
  /\ \E b \in Payloads, c \in CompressOutcomes :
       /\ file' = b
       /\ zlib' = IF c.ok THEN Stream(b, c.out) ELSE NoStream
       /\ enc' = Encode(b, c, build)
  /\ pc' = "encoded"
  /\ UNCHANGED <<build, dec, in1, out1, in2, out2, lenIn, lenOut>>

\* tool -d on the image that encode produced (main.rs 57-66)
DecodeImage ==
  /\ pc = "encoded"
  /\ enc.status = "ok"
  /\ dec' = Decode(Flatten(enc.img), zlib)
  /\ pc' = "decoded"
  /\ UNCHANGED <<build, zlib, file, enc, in1, out1, in2, out2, lenIn, lenOut>>

\* decode on an arbitrary channel buffer
DecodeBuffer ==
  /\ pc = "idle"
  /\ \E bytes \in DecodeInputs, z \in KnownStreams :
       /\ zlib' = z
       /\ in1' = bytes
       /\ out1' = Decode(bytes, z)
  /\ pc' = "parsed"
  /\ UNCHANGED <<build, file, enc, dec, in2, out2, lenIn, lenOut>>

\* decode on a second channel buffer, with the same codec
DecodeOther ==
  /\ pc = "parsed"
  /\ \E bytes \in DecodeInputs :
       /\ in2' = bytes
       /\ out2' = Decode(bytes, zlib)
  /\ pc' = "parsed2"
  /\ UNCHANGED <<build, zlib, file, enc, dec, in1, out1, lenIn, lenOut>>

\* encode followed on the length of its buffers only, for stored bytes of
\* any length a 64-bit machine can hold
EncodeLength ==
  /\ pc = "idle"
  /\ \E n \in StoredLengths :
       /\ lenIn' = n
       /\ lenOut' = EncodeLen(n, build)
  /\ pc' = "sized"
  /\ UNCHANGED <<build, zlib, file, enc, dec, in1, out1, in2, out2>>

Next == EncodeFile \/ DecodeImage \/ DecodeBuffer \/ DecodeOther \/ EncodeLength

Spec == Init /\ [][Next]_vars

TypeOK ==
  /\ build \in Builds
  /\ pc \in {"idle", "encoded", "decoded", "parsed", "parsed2", "sized"}
  /\ enc.status \in {"none", "ok", "err", "panic"}
  /\ dec.status \in {"none", "ok", "err", "panic"}
  /\ lenOut.status \in {"none", "ok", "err", "panic"}

(***************************************************************************)
(* Properties.                                                             *)
(***************************************************************************)
Encoded == pc \in {"encoded", "decoded"}

CompressorFailed == Encoded /\ ~zlib.known

\* the declared length of a channel buffer of at least 9 bytes
Declared(bytes) == FromLeBytes(SubSeq(bytes, 2, 9))

\* C1: decoding the flattened image that encode returned gives back exactly
\* the payload, for every payload and every outcome of the compressor.
C1_RoundTrip == pc = "decoded" => dec = Done(file)

\* C2: for every frame length that fits u32, the dimensions satisfy
\* width mod 4 = 0, width * height * 4 >= L and height = width / 4 - 1.
C2_DimensionFormula ==
  (pc = "sized" /\ FitsU32(lenOut.L)) =>
    /\ lenOut.width % 4 = 0
    /\ Leq(lenOut.L, lenOut.exact)
    /\ lenOut.height = (lenOut.width \div 4) - 1

\* C3: the buffer handed to the image has length width * height * 4 and is
\* the whole frame [flag][length][stored bytes] followed only by zero bytes.
C3_ChannelBufferLayout ==
  (Encoded /\ enc.status = "ok") =>
    /\ N(Len(enc.img.data)) = Times(enc.shape.width * enc.shape.height, 4)
    /\ enc.frame = <<enc.flag>> \o ToLeBytes(N(Len(enc.stored))) \o enc.stored
    /\ Len(enc.frame) <= Len(enc.img.data)
    /\ \A i \in 1..Len(enc.img.data) :
         enc.img.data[i] = IF i <= Len(enc.frame) THEN enc.frame[i] ELSE 0

ShortInputOutcome(bytes, out) ==
  /\ Len(bytes) = 0 => out = Fail("err", "input file is empty")
  /\ Len(bytes) \in 1..8 => out = Fail("err", "input file is invalid")

\* C4: decode of an empty buffer returns the "empty input" error and decode
\* of a buffer of 1 to 8 bytes returns the invalid-header error; neither
\* panics nor yields a payload.
C4_ShortInputs ==
  /\ pc \in {"parsed", "parsed2"} => ShortInputOutcome(in1, out1)
  /\ pc = "parsed2" => ShortInputOutcome(in2, out2)
  /\ pc = "decoded" => ShortInputOutcome(Flatten(enc.img), dec)

C4_Witness ==
  /\ pc = "parsed2"
  /\ in1 = <<>> /\ out1.msg = "input file is empty"
  /\ Len(in2) = 8 /\ out2.msg = "input file is invalid"

\* C5: a buffer of at least 9 bytes whose length field declares more bytes
\* than follow the header makes decode return an error value.
C5_TruncatedIsError ==
  (pc = "parsed" /\ Len(in1) >= 9 /\ ~Leq(Declared(in1), N(Len(in1) - 9))) =>
    out1.status = "err"

\* C6: when the compressor fails, encode still succeeds, the frame is flag 0,
\* the payload's length and the payload itself, and decoding the image
\* returns the payload.
C6_CompressionFallback ==
  CompressorFailed =>
    /\ enc.status = "ok"
    /\ enc.frame = <<0>> \o ToLeBytes(N(Len(file))) \o file
    /\ pc = "decoded" => dec = Done(file)

\* C7: when the frame length does not fit u32 or width * height * 4 does not
\* fit u32, encode returns an error and never resizes to a wrapped size.
C7_RangeErrors ==
  (pc = "sized" /\ (~FitsU32(lenOut.L) \/ lenOut.overflow)) =>
    /\ lenOut.status = "err"
    /\ ~lenOut.resized

\* C8: whenever the unpadded frame is longer than width * height * 4, encode
\* returns an error instead of an image.
C8_OversizedIsError ==
  /\ (Encoded /\ ~Leq(enc.shape.L, enc.shape.exact)) => enc.status = "err"
  /\ (pc = "sized" /\ FitsU32(lenOut.L) /\ ~Leq(lenOut.L, lenOut.exact)) =>
       lenOut.status = "err"

\* C9: when width * height * 4 fits u32, the image of (width/2) x (height*2)
\* pixels holds exactly width * height * 4 bytes, the length of the resized
\* buffer, and its construction does not fail.
C9_ReshapePreservesSize ==
  /\ (pc = "sized" /\ FitsU32(lenOut.L) /\ ~lenOut.overflow) =>
       /\ lenOut.status = "ok"
       /\ lenOut.size = lenOut.exact
       /\ Times(lenOut.iw * lenOut.ih, 4) = lenOut.size
  /\ Encoded =>
       /\ enc.status = "ok"
       /\ Len(enc.img.data) = enc.img.width * enc.img.height * 4

C9_Witness ==
  /\ pc = "sized"
  /\ lenOut.L = Square(B - 1)
  /\ lenOut.status = "ok"
  /\ lenOut.iw = B \div 2

\* two channel buffers with the same header and the same declared payload
AgreeOnFrame(a, b) ==
  /\ Len(a) >= 9 /\ Len(b) >= 9
  /\ SubSeq(a, 1, 9) = SubSeq(b, 1, 9)
  /\ Leq(Declared(a), N(Len(a) - 9))
  /\ Leq(Declared(a), N(Len(b) - 9))
  /\ SubSeq(a, 1, 9 + Small(Declared(a))) = SubSeq(b, 1, 9 + Small(Declared(a)))

\* C10: decode returns the same outcome for two buffers that agree on the
\* header and the declared payload, whatever follows the payload.
C10_PaddingIgnored ==
  (pc = "parsed2" /\ AgreeOnFrame(in1, in2)) => out1 = out2

C10_Witness ==
  /\ pc = "parsed2"
  /\ AgreeOnFrame(in1, in2)
  /\ Len(in1) < Len(in2)
  /\ in2[Len(in2)] # 0
  /\ out1.status = "ok" /\ out1.bytes # <<>>
  /\ out2 = out1

====
